---- MODULE Spec2Model ----
(***************************************************************************)
(* Termux AI Assistant: the code runner (code_executor.py), the generation *)
(* client (client.py) and the interactive loop (terminal.py).              *)
(*                                                                         *)
(* Text values (prompts, backend responses, code) are sequences of         *)
(* one-character strings, so that lower() and strip() are computed.        *)
(***************************************************************************)
EXTENDS Integers, Sequences, FiniteSets, TLC

\* ------------------------------------------------------------------ bounds
\* Number of distinct scratch-file names tempfile can draw in the workspace.
MaxNames == 2
\* Number of callers of execute_code besides the first one.
MaxBg == 1

Names == 1..MaxNames
\* The caller the interactive loop is; in RunnerSpec it is a caller like the others.
UI == 0
Callers == {UI} \cup (1..MaxBg)

\* ------------------------------------------------------------ text helpers
Whitespace == {" ", "\n"}

LowerChar(ch) ==
    CASE ch = "E" -> "e"
      [] ch = "X" -> "x"
      [] ch = "I" -> "i"
      [] ch = "T" -> "t"
      [] ch = "Q" -> "q"
      [] ch = "U" -> "u"
      [] ch = "H" -> "h"
      [] ch = "L" -> "l"
      [] ch = "P" -> "p"
      [] OTHER -> ch

\* str.lower()
Lower(s) == [i \in 1..Len(s) |-> LowerChar(s[i])]

RECURSIVE LStrip(_)
LStrip(s) == IF s # <<>> /\ Head(s) \in Whitespace THEN LStrip(Tail(s)) ELSE s

RECURSIVE RStrip(_)
RStrip(s) ==
    IF s # <<>> /\ s[Len(s)] \in Whitespace
    THEN RStrip(SubSeq(s, 1, Len(s) - 1))
    ELSE s

\* AIClient._extract_code: response_text.strip()
extract_code(response_text) == RStrip(LStrip(response_text))

\* The lines a user can type at the "TAI> " prompt.
Prompts ==
    { <<>>,
      <<"e", "x", "i", "t">>,
      <<"E", "X", "I", "T">>,
      <<"Q", "u", "i", "t">>,
      <<"h", "e", "l", "p">>,
      <<"H", "e", "l", "p">>,
      <<"a">>,
      <<" ", "e", "x", "i", "t">> }

ExitWords == { <<"e", "x", "i", "t">>, <<"q", "u", "i", "t">> }
HelpWord == <<"h", "e", "l", "p">>

\* The texts the backend can answer with (response.text), raw.
RawTexts ==
    { <<>>,
      <<" ", "\n">>,
      <<"a">>,
      <<" ", "b", "\n">>,
      <<"l", " ">>,
      <<"h">> }

\* Code texts the loop can hand to execute_code.
Codes == { extract_code(t) : t \in RawTexts }

\* Code texts the other callers hand to execute_code.
CallerCodes == { <<"a">>, <<"l">> }

\* What the interpreter does with a script: its streams, its exit status as
\* subprocess reports it (0..255, or -N when killed by signal N), and whether it
\* runs longer than any timeout.
Behaviour(text) ==
    CASE text = <<"a">> -> [out |-> "a", err |-> "", rc |-> 0, loops |-> FALSE]
      [] text = <<"b">> -> [out |-> "", err |-> "Traceback", rc |-> 1, loops |-> FALSE]
      [] text = <<"l">> -> [out |-> "", err |-> "", rc |-> 0, loops |-> TRUE]
      [] text = <<"h">> -> [out |-> "", err |-> "", rc |-> -1, loops |-> FALSE]
      [] OTHER -> [out |-> "", err |-> "", rc |-> 0, loops |-> FALSE]

\* ------------------------------------------------------------------- state
VARIABLES
    wsExists,   \* the workspace directory exists
    files,      \* scratch files in the workspace: name -> text
    pc,         \* per caller: position inside execute_code
    code,       \* per caller: the code argument
    fname,      \* per caller: temp_file.name (0 before the file is created)
    child,      \* per caller: "none", "running", "exited", "killed"
    ran,        \* per caller: the text the child process read from its script
    result,     \* per caller: <<>> or <<the returned dict>>
    raised,     \* per caller: the exception that left execute_code, or "none"
    uiPc,       \* TerminalUI.run: "prompt", "generating", "confirm", "executing", "done"
    prompt,     \* the line read in this turn
    genCode,    \* <<>> or <<code returned by generate_code>>
    genError,   \* "none" or the error generate_code raised
    backend,    \* what the backend did in this turn's predict call
    answer,     \* the yes/no dialog's answer in this turn: "none", "yes", "no"
    genCalls,   \* generate_code calls issued in this turn
    execCalls,  \* execute_code calls issued by the loop in this turn
    predictCalls, \* model.predict calls made by this turn's generate_code
    shown,      \* what the loop printed last: <<tag, text>>
    ended       \* why the loop ended: "none", "command" or the exception

execVars == <<wsExists, files, pc, code, fname, child, ran, result, raised>>
uiVars == <<uiPc, prompt, genCode, genError, backend, answer, genCalls, execCalls,
            predictCalls, shown, ended>>
vars == <<wsExists, files, pc, code, fname, child, ran, result, raised,
          uiPc, prompt, genCode, genError, backend, answer, genCalls, execCalls,
          predictCalls, shown, ended>>

\* ------------------------------------------------------- CodeExecutor
\* Exceptions derived from Exception, and those derived from BaseException only.
ExceptionClasses ==
    { "TimeoutExpired", "FileNotFoundError", "FileExistsError", "PermissionError",
      "OSError", "EOFError", "RuntimeError", "GenerationFailed" }
BaseOnly == { "KeyboardInterrupt", "CancelledError" }

TimeoutResult == [stdout |-> "", stderr |-> "Execution timed out", returncode |-> -1]
ErrorResult(e) == [stdout |-> "", stderr |-> e, returncode |-> -1]

\* execute_code with only the TimeoutExpired clause: other exceptions leave the call.
HandleTimeoutOnly(e) ==
    IF e = "TimeoutExpired" THEN [ret |-> <<TimeoutResult>>, exc |-> "none"]
    ELSE [ret |-> <<>>, exc |-> e]

\* execute_code with the clauses in the other order: except Exception comes first.
HandleGenericFirst(e) ==
    IF e \in ExceptionClasses THEN [ret |-> <<ErrorResult(e)>>, exc |-> "none"]
    ELSE [ret |-> <<>>, exc |-> e]

\* The except clauses of execute_code: what leaves the call when e is raised in
\* its try block.
Handle(e) ==
    IF e = "TimeoutExpired" THEN [ret |-> <<TimeoutResult>>, exc |-> "none"]
    ELSE IF e \in ExceptionClasses THEN [ret |-> <<ErrorResult(e)>>, exc |-> "none"]
    ELSE [ret |-> <<>>, exc |-> e]

\* The call of caller c ends with e raised inside the try block.
Raise(c, e) ==
    /\ result' = [result EXCEPT ![c] = Handle(e).ret]
    /\ raised' = [raised EXCEPT ![c] = Handle(e).exc]
    /\ pc' = [pc EXCEPT ![c] = IF Handle(e).exc = "none" THEN "returned" ELSE "raised"]

\* Name choice without the O_EXCL check: any name, taken or not.
AnyName == Names

\* Names tempfile may still pick: it opens with O_EXCL and skips existing names.
FreeNames == Names \ DOMAIN files

\* CodeExecutor.__init__ -> _ensure_workspace: os.makedirs(exist_ok=True).
ensure_workspace ==
    /\ wsExists' = TRUE
    /\ UNCHANGED <<files, pc, code, fname, child, ran, result, raised>>
    /\ UNCHANGED uiVars

\* The workspace directory is removed from outside while no call is in progress.
RemoveWorkspace ==
    /\ wsExists
    /\ \A c \in Callers : pc[c] = "idle"
    /\ wsExists' = FALSE
    /\ files' = <<>>
    /\ UNCHANGED <<pc, code, fname, child, ran, result, raised>>
    /\ UNCHANGED uiVars

\* A caller enters execute_code(src).
Call(c, src) ==
    /\ pc[c] = "idle"
    /\ pc' = [pc EXCEPT ![c] = "called"]
    /\ code' = [code EXCEPT ![c] = src]
    /\ UNCHANGED <<wsExists, files, fname, child, ran, result, raised>>
    /\ UNCHANGED uiVars

\* tempfile.NamedTemporaryFile(mode='w', suffix='.py', dir=workspace, delete=False)
CreateFile(c) ==
    /\ pc[c] = "called"
    /\ \/ /\ wsExists
          /\ \E n \in FreeNames :
                /\ files' = [m \in DOMAIN files \cup {n} |->
                                IF m = n THEN <<>> ELSE files[m]]
                /\ fname' = [fname EXCEPT ![c] = n]
          /\ pc' = [pc EXCEPT ![c] = "created"]
          /\ UNCHANGED <<result, raised>>
       \/ /\ ~wsExists
          /\ Raise(c, "FileNotFoundError")
          /\ UNCHANGED <<files, fname>>
       \/ /\ wsExists
          /\ FreeNames = {}
          /\ Raise(c, "FileExistsError")
          /\ UNCHANGED <<files, fname>>
       \/ /\ wsExists
          /\ Raise(c, "PermissionError")
          /\ UNCHANGED <<files, fname>>
    /\ UNCHANGED <<wsExists, code, child, ran>>
    /\ UNCHANGED uiVars

\* temp_file.write(code); temp_file.flush(); the with block closes the file.
WriteFile(c) ==
    /\ pc[c] = "created"
    /\ \/ /\ files' = [files EXCEPT ![fname[c]] = code[c]]
          /\ pc' = [pc EXCEPT ![c] = "written"]
          /\ UNCHANGED <<result, raised>>
       \/ /\ Raise(c, "OSError")
          /\ UNCHANGED files
    /\ UNCHANGED <<wsExists, code, fname, child, ran>>
    /\ UNCHANGED uiVars

\* subprocess.run([sys.executable, temp_file.name], ...): the child starts.
Spawn(c) ==
    /\ pc[c] = "written"
    /\ \/ /\ child' = [child EXCEPT ![c] = "running"]
          /\ ran' = [ran EXCEPT ![c] = files[fname[c]]]
          /\ pc' = [pc EXCEPT ![c] = "running"]
          /\ UNCHANGED <<result, raised>>
       \/ /\ Raise(c, "OSError")
          /\ UNCHANGED <<child, ran>>
    /\ UNCHANGED <<wsExists, files, code, fname>>
    /\ UNCHANGED uiVars

\* subprocess.run returns: the child exited by itself within the timeout.
Complete(c) ==
    /\ pc[c] = "running"
    /\ ~Behaviour(ran[c]).loops
    /\ child' = [child EXCEPT ![c] = "exited"]
    /\ pc' = [pc EXCEPT ![c] = "exited"]
    /\ UNCHANGED <<wsExists, files, code, fname, ran, result, raised>>
    /\ UNCHANGED uiVars

\* The timeout expires first: subprocess.run kills the child, waits for it and
\* raises TimeoutExpired.
Timeout(c) ==
    /\ pc[c] = "running"
    /\ child' = [child EXCEPT ![c] = "killed"]
    /\ Raise(c, "TimeoutExpired")
    /\ UNCHANGED <<wsExists, files, code, fname, ran>>
    /\ UNCHANGED uiVars

\* The dict built from the CompletedProcess.
CompletedResult(c) ==
    [stdout |-> Behaviour(ran[c]).out,
     stderr |-> Behaviour(ran[c]).err,
     returncode |-> Behaviour(ran[c]).rc]

\* os.unlink(temp_file.name), then return the result dict.
Unlink(c) ==
    /\ pc[c] = "exited"
    /\ \/ /\ files' = [n \in DOMAIN files \ {fname[c]} |-> files[n]]
          /\ result' = [result EXCEPT ![c] = <<CompletedResult(c)>>]
          /\ pc' = [pc EXCEPT ![c] = "returned"]
          /\ UNCHANGED raised
       \/ /\ Raise(c, "PermissionError")
          /\ UNCHANGED files
    /\ UNCHANGED <<wsExists, code, fname, child, ran>>
    /\ UNCHANGED uiVars

\* The per-call state of caller c once its caller has taken the outcome.
Forget(c) ==
    /\ pc' = [pc EXCEPT ![c] = "idle"]
    /\ code' = [code EXCEPT ![c] = <<>>]
    /\ fname' = [fname EXCEPT ![c] = 0]
    /\ child' = [child EXCEPT ![c] = "none"]
    /\ ran' = [ran EXCEPT ![c] = <<>>]
    /\ result' = [result EXCEPT ![c] = <<>>]
    /\ raised' = [raised EXCEPT ![c] = "none"]

\* A caller takes the outcome of its call.
Return(c) ==
    /\ pc[c] \in {"returned", "raised"}
    /\ Forget(c)
    /\ UNCHANGED <<wsExists, files>>
    /\ UNCHANGED uiVars

RunnerStep(c) ==
    \/ CreateFile(c)
    \/ WriteFile(c)
    \/ Spawn(c)
    \/ Complete(c)
    \/ Timeout(c)
    \/ Unlink(c)

\* ----------------------------------------------------------- AIClient
BackendFaults == { "model_init_fault", "network_fault", "malformed" }
NoBackend == [kind |-> "none", text |-> <<>>]

\* What the backend can do with one generate_code call: aiplatform.Model(...)
\* raises, model.predict raises, the response carries no text, or it carries one.
BackendOutcomes ==
    { [kind |-> k, text |-> <<>>] : k \in BackendFaults }
        \cup { [kind |-> "text", text |-> t] : t \in RawTexts }

\* AIClient.generate_code(prompt) for the backend outcome o: the code it returns
\* (<<>> when it raises) and the error it raises ("none" when it returns).
generate_code(o) ==
    IF o.kind \in BackendFaults
    THEN [code |-> <<>>, error |-> "GenerationFailed"]
    ELSE [code |-> <<extract_code(o.text)>>, error |-> "none"]

\* model.predict calls made for outcome o: none when aiplatform.Model raised first.
PredictCalls(o) == IF o.kind = "model_init_fault" THEN 0 ELSE 1

\* ---------------------------------------------------------- TerminalUI
NothingShown == <<"none", "">>

\* The loop body with only the KeyboardInterrupt clause: other exceptions end the loop.
ExceptInterruptOnly(e) ==
    IF e = "KeyboardInterrupt" THEN [pc |-> "prompt", shown |-> shown, ended |-> "none"]
    ELSE [pc |-> "done", shown |-> shown, ended |-> e]

\* The except clauses of the loop body: where the loop goes when e is raised in
\* a turn, what it prints, and whether the loop ends.
Except(e) ==
    IF e = "KeyboardInterrupt" THEN [pc |-> "prompt", shown |-> shown, ended |-> "none"]
    ELSE IF e \in ExceptionClasses THEN [pc |-> "prompt", shown |-> <<"Error", e>>, ended |-> "none"]
    ELSE [pc |-> "done", shown |-> shown, ended |-> e]

Caught(e) ==
    /\ uiPc' = Except(e).pc
    /\ shown' = Except(e).shown
    /\ ended' = Except(e).ended

\* The loop executing whatever the dialog answers.
ConfirmedAlways(a) == a \in {"yes", "no"}

\* The dialog's answer that lets the loop call execute_code.
Confirmed(a) == a = "yes"

\* prompt = await self.session.prompt_async("TAI> ") and the command dispatch.
ReadLine(p) ==
    /\ uiPc = "prompt"
    /\ \/ /\ Lower(p) \in ExitWords
          /\ uiPc' = "done"
          /\ ended' = "command"
          /\ UNCHANGED <<prompt, genCode, genError, backend, answer, genCalls,
                         execCalls, predictCalls, shown>>
       \/ /\ Lower(p) \notin ExitWords
          /\ Lower(p) = HelpWord
          /\ shown' = <<"help", "">>
          /\ UNCHANGED <<uiPc, prompt, genCode, genError, backend, answer, genCalls,
                         execCalls, predictCalls, ended>>
       \/ /\ Lower(p) \notin ExitWords
          /\ Lower(p) # HelpWord
          /\ uiPc' = "generating"
          /\ prompt' = p
          /\ genCalls' = 1
          /\ execCalls' = 0
          /\ predictCalls' = 0
          /\ genCode' = <<>>
          /\ genError' = "none"
          /\ backend' = NoBackend
          /\ answer' = "none"
          /\ shown' = <<"Generating code...", "">>
          /\ UNCHANGED ended
    /\ UNCHANGED execVars

\* prompt_async raises (end of input).
ReadFails ==
    /\ uiPc = "prompt"
    /\ Caught("EOFError")
    /\ UNCHANGED <<prompt, genCode, genError, backend, answer, genCalls, execCalls,
                   predictCalls>>
    /\ UNCHANGED execVars

\* code = await self.ai_client.generate_code(prompt), then the code is shown.
Generate(o) ==
    /\ uiPc = "generating"
    /\ backend' = o
    /\ predictCalls' = predictCalls + PredictCalls(o)
    /\ genCode' = generate_code(o).code
    /\ genError' = generate_code(o).error
    /\ \/ /\ generate_code(o).error = "none"
          /\ uiPc' = "confirm"
          /\ shown' = <<"Generated Code:", "">>
          /\ UNCHANGED ended
       \/ /\ generate_code(o).error # "none"
          /\ Caught(generate_code(o).error)
    /\ UNCHANGED <<prompt, answer, genCalls, execCalls>>
    /\ UNCHANGED execVars

\* yes_no_dialog(...).run() and, on yes, the call of execute_code(code).
Dialog(a) ==
    /\ uiPc = "confirm"
    /\ answer' = a
    /\ \/ /\ Confirmed(a)
          /\ uiPc' = "executing"
          /\ execCalls' = execCalls + 1
          /\ pc' = [pc EXCEPT ![UI] = "called"]
          /\ code' = [code EXCEPT ![UI] = genCode[1]]
          /\ shown' = <<"Executing code...", "">>
       \/ /\ ~Confirmed(a)
          /\ uiPc' = "prompt"
          /\ UNCHANGED <<execCalls, pc, code, shown>>
    /\ UNCHANGED <<prompt, genCode, genError, backend, genCalls, predictCalls, ended>>
    /\ UNCHANGED <<wsExists, files, fname, child, ran, result, raised>>

\* The dialog itself raises instead of answering.
DialogFails ==
    /\ uiPc = "confirm"
    /\ Caught("RuntimeError")
    /\ UNCHANGED <<prompt, genCode, genError, backend, answer, genCalls, execCalls,
                   predictCalls>>
    /\ UNCHANGED execVars

\* result = self.code_executor.execute_code(code) has returned; show it.
ShowResult ==
    /\ uiPc = "executing"
    /\ pc[UI] = "returned"
    /\ shown' = IF result[UI][1].returncode = 0
                 THEN <<"Output:", result[UI][1].stdout>>
                 ELSE <<"Error:", result[UI][1].stderr>>
    /\ uiPc' = "prompt"
    /\ Forget(UI)
    /\ UNCHANGED <<prompt, genCode, genError, backend, answer, genCalls, execCalls,
                   predictCalls, ended>>
    /\ UNCHANGED <<wsExists, files>>

\* Ctrl-C during a turn: KeyboardInterrupt is raised in the loop body, or (when
\* the event loop turns it into a cancellation of the task) CancelledError.
\* A call of execute_code in progress is abandoned and its child killed.
Interrupt(e) ==
    /\ uiPc \in {"prompt", "generating", "confirm", "executing"}
    /\ uiPc = "executing" => pc[UI] # "returned"
    /\ Caught(e)
    /\ IF uiPc = "executing"
       THEN Forget(UI)
       ELSE UNCHANGED <<pc, code, fname, child, ran, result, raised>>
    /\ UNCHANGED <<prompt, genCode, genError, backend, answer, genCalls, execCalls,
                   predictCalls>>
    /\ UNCHANGED <<wsExists, files>>

\* ------------------------------------------------------- specifications
Init ==
    /\ wsExists = TRUE
    /\ files = <<>>
    /\ pc = [c \in Callers |-> "idle"]
    /\ code = [c \in Callers |-> <<>>]
    /\ fname = [c \in Callers |-> 0]
    /\ child = [c \in Callers |-> "none"]
    /\ ran = [c \in Callers |-> <<>>]
    /\ result = [c \in Callers |-> <<>>]
    /\ raised = [c \in Callers |-> "none"]
    /\ uiPc = "prompt"
    /\ prompt = <<>>
    /\ genCode = <<>>
    /\ genError = "none"
    /\ backend = NoBackend
    /\ answer = "none"
    /\ genCalls = 0
    /\ execCalls = 0
    /\ predictCalls = 0
    /\ shown = NothingShown
    /\ ended = "none"

\* The interactive program: the loop, its one runner call at a time, and the
\* workspace directory being removed or re-created around it.
Next ==
    \/ \E p \in Prompts : ReadLine(p)
    \/ ReadFails
    \/ \E o \in BackendOutcomes : Generate(o)
    \/ \E a \in {"yes", "no"} : Dialog(a)
    \/ DialogFails
    \/ ShowResult
    \/ \E e \in BaseOnly : Interrupt(e)
    \/ RunnerStep(UI)
    \/ ensure_workspace
    \/ RemoveWorkspace

Spec == Init /\ [][Next]_vars

\* The runner used by several callers at once on one workspace.
RunnerNext ==
    \/ \E c \in Callers : \E src \in CallerCodes : Call(c, src)
    \/ \E c \in Callers : RunnerStep(c)
    \/ \E c \in Callers : Return(c)
    \/ ensure_workspace
    \/ RemoveWorkspace

RunnerSpec == Init /\ [][RunnerNext]_vars

\* --------------------------------------------------------------- claims
\* Caller c holds a scratch file of its own (between creation and deletion).
HoldsFile(c) == pc[c] \in {"created", "written", "running", "exited"}

ResultFields == {"stdout", "stderr", "returncode"}

\* C1: once a call has returned, the scratch file it created no longer exists, on
\* every exit path; with no call in progress the workspace holds no scratch file.
C1_ScratchFileRemoved ==
    /\ \A c \in Callers :
          (pc[c] = "returned" /\ fname[c] # 0)
              => \/ fname[c] \notin DOMAIN files
                 \/ \E d \in Callers \ {c} : HoldsFile(d) /\ fname[d] = fname[c]
    /\ (\A c \in Callers : pc[c] = "idle") => DOMAIN files = {}

\* C2: execute_code never lets an error out: whatever fails at whichever step, the
\* call goes on to return a dict with exactly stdout, stderr and returncode.
C2_AlwaysReturnsResult ==
    \A c \in Callers :
        /\ raised[c] = "none"
        /\ pc[c] # "raised"
        /\ pc[c] \in {"called", "created", "written", "running", "exited"}
              => ENABLED RunnerStep(c)
        /\ pc[c] = "returned"
              => /\ Len(result[c]) = 1
                 /\ DOMAIN result[c][1] = ResultFields

\* C2 witness: a call returned a result although a step failed: the deletion of
\* the scratch file raised after the child had exited.
C2_Witness ==
    \E c \in Callers :
        /\ pc[c] = "returned"
        /\ child[c] = "exited"
        /\ result[c] = <<ErrorResult("PermissionError")>>

\* C3: the returned returncode, stdout and stderr are the child's own exactly when
\* the child ran to completion within the timeout, and returncode is -1 exactly
\* when it did not.
C3_ExitStatusTaxonomy ==
    \A c \in Callers :
        pc[c] = "returned"
            => /\ (child[c] = "exited") <=> (result[c] = <<CompletedResult(c)>>)
               /\ (result[c][1].returncode = -1) <=> (child[c] # "exited")

\* C4: a child still running when the timeout expires is killed and reaped, and the
\* call returns exactly stdout "", stderr "Execution timed out", returncode -1; no
\* child of a call is running once the call has returned.
C4_TimeoutOutcome ==
    \A c \in Callers :
        /\ child[c] = "killed"
              => /\ pc[c] = "returned"
                 /\ result[c] = <<[stdout |-> "", stderr |-> "Execution timed out",
                                    returncode |-> -1]>>
        /\ pc[c] \in {"returned", "raised", "idle"} => child[c] # "running"
        /\ pc[c] = "running" => child[c] = "running" /\ ENABLED Timeout(c)

\* C4 witness: a call whose code never exits has returned after its timeout.
C4_Witness ==
    \E c \in Callers :
        /\ pc[c] = "returned"
        /\ child[c] = "killed"
        /\ Behaviour(ran[c]).loops

\* C5: whatever fails in a turn is reported and the loop is back at the prompt; a
\* turn whose generation failed executes nothing; the loop ends only on the
\* exit/quit command or on an interrupt.
C5_LoopSurvives ==
    /\ [](/\ uiPc = "done" => ended \in {"command"} \cup BaseOnly
          /\ genError # "none" => execCalls = 0 /\ pc[UI] = "idle")
    /\ [][/\ (uiPc = "generating" /\ genError' # "none")
               => uiPc' = "prompt" /\ shown' = <<"Error", genError'>>
          /\ (uiPc = "executing" /\ pc[UI] = "returned" /\ uiPc' # "executing")
               => /\ uiPc' = "prompt"
                  /\ result[UI][1].returncode # 0
                        => shown' = <<"Error:", result[UI][1].stderr>>
          /\ (uiPc # "done" /\ uiPc' = "done" /\ ended' = "command")
               => uiPc = "prompt"
          /\ (shown' # shown /\ shown'[1] \in {"Error", "Error:"})
               => uiPc' = "prompt" /\ ended' = "none"]_vars

\* C5 witness: a generation failure was reported and the loop is at the prompt again.
C5_Witness ==
    /\ uiPc = "prompt"
    /\ genError = "GenerationFailed"
    /\ shown = <<"Error", "GenerationFailed">>
    /\ execCalls = 0

\* C6: a turn issues at most one generate_code and one execute_code call; the
\* execute_code call runs only after generate_code returned code and the dialog
\* answered yes, on exactly that code, and never while generate_code is pending.
C6_TurnOrdering ==
    /\ genCalls <= 1
    /\ execCalls <= 1
    /\ predictCalls <= genCalls
    /\ uiPc = "generating" => pc[UI] = "idle"
    /\ pc[UI] # "idle"
          => /\ uiPc = "executing"
             /\ execCalls = 1
             /\ genError = "none"
             /\ answer = "yes"
             /\ genCode = <<code[UI]>>

\* C6 witness: the loop's child process is running the code generation returned.
C6_Witness ==
    /\ uiPc = "executing"
    /\ pc[UI] = "running"
    /\ answer = "yes"
    /\ genCode = <<ran[UI]>>

\* C7: on every backend fault, an empty response included, generate_code raises one
\* error and returns no code; never an error together with code; one predict call.
C7_SingleErrorPath ==
    (uiPc # "generating" /\ backend.kind # "none")
        => /\ (backend.kind \in BackendFaults \/ backend.text = <<>>)
                => (genError # "none" /\ genCode = <<>>)
           /\ ~(genError # "none" /\ genCode # <<>>)
           /\ predictCalls <= 1

\* C8: calls in progress on one workspace hold scratch files of different names;
\* each file a call still needs exists and holds that call's text; each child ran
\* its own call's text and each normal result is that of the call's own code.
C8_CallsIsolated ==
    /\ \A c, d \in Callers :
          (c # d /\ HoldsFile(c) /\ HoldsFile(d)) => fname[c] # fname[d]
    /\ \A c \in Callers :
          /\ HoldsFile(c) => fname[c] \in DOMAIN files
          /\ pc[c] \in {"written", "running", "exited"} => files[fname[c]] = code[c]
          /\ child[c] # "none" => ran[c] = code[c]
          /\ (pc[c] = "returned" /\ result[c][1].returncode # -1)
                => result[c][1].stdout = Behaviour(code[c]).out

\* C8 witness: two calls with different code have their children running at once.
C8_Witness ==
    \E c, d \in Callers :
        /\ c # d
        /\ pc[c] = "running"
        /\ pc[d] = "running"
        /\ code[c] # code[d]

\* C9: every call makes sure the workspace directory exists before it creates its
\* scratch file, also after the directory was removed, and never removes it.
C9_WorkspaceEnsuredPerCall ==
    [][/\ \A c \in Callers : (pc[c] = "called" /\ pc'[c] # "called") => wsExists'
       /\ (wsExists /\ ~wsExists') => \A c \in Callers : pc[c] = "idle"]_vars

\* C10: generate_code is never called with an empty prompt, nor with exit, quit or
\* help in any letter case.
C10_NoEmptyPrompt ==
    uiPc = "generating"
        => /\ prompt # <<>>
           /\ Lower(prompt) \notin ExitWords \cup {HelpWord}

====
